---- MODULE Spec2Model ----
(***************************************************************************)
(* Model of nlp-service/app.py: the POST /generate handler that blanks a   *)
(* subset of the words of a text.                                          *)
(*                                                                         *)
(* Strings are sequences of one-character strings.  Ratios are integers    *)
(* in hundredths (0.40 is 40); for the parameter values and candidate      *)
(* counts used here int(len(candidates) * ratio) on Python floats equals   *)
(* (n * ratio) \div 100.  Token positions are 1-based indexes into doc     *)
(* (spaCy's Token.i + 1); a spaCy Token hashes and compares by (doc, i),   *)
(* so blank_set is a set of positions.  The process-wide generator of the  *)
(* random module is a state in 0..RngMod-1.                                *)
(***************************************************************************)
EXTENDS Integers, Sequences, FiniteSets, TLC

\* ------------------------------------------------------------------ bounds
RngMod == 6        \* number of generator states
MaxSeed == 1       \* seeds are 0..MaxSeed
MaxAttempt == 4    \* attempt_number ranges over 1..MaxAttempt
MaxLevel == 5      \* difficulty_level ranges over -1..MaxLevel

\* -------------------------------------------------------------- characters
Lower == {"a","b","c","d","e","f","g","h","i","j","k","l","m",
          "n","o","p","q","r","s","t","u","v","w","x","y","z"}
Upper == {"A","B","C","D","E","F","G","H","I","J","K","L","M",
          "N","O","P","Q","R","S","T","U","V","W","X","Y","Z"}
Letters == Lower \cup Upper
Digits == {"0","1","2","3","4","5","6","7","8","9"}
Whitespace == {" ", "\n", "\t"}

\* words of the lexicon
W_The == <<"T","h","e">>
W_this == <<"t","h","i","s">>
W_with == <<"w","i","t","h">>
W_Cats == <<"C","a","t","s">>
W_cats == <<"c","a","t","s">>
W_fox == <<"f","o","x">>
W_quick == <<"q","u","i","c","k">>
W_brown == <<"b","r","o","w","n">>
W_jumps == <<"j","u","m","p","s">>
W_Paris == <<"P","a","r","i","s">>
W_French == <<"F","r","e","n","c","h">>
W_ab12 == <<"a","b","1","2">>
SP == <<" ">>
DOT == <<".">>
NL == <<"\n">>

\* what the en_core_web_sm pipeline attaches to a token text
StopWords == {W_The, W_this, W_with}
Nouns == {W_Cats, W_cats, W_fox}
ProperNouns == {W_Paris}

is_stop(token_text) == token_text \in StopWords

pos_(token_text) ==
    IF token_text \in Nouns THEN "NOUN"
    ELSE IF token_text \in ProperNouns THEN "PROPN"
    ELSE IF token_text \in StopWords THEN "DET"
    ELSE IF token_text # <<>> /\ token_text[1] \in Whitespace THEN "SPACE"
    ELSE IF token_text = DOT THEN "PUNCT"
    ELSE IF token_text = W_jumps THEN "VERB"
    ELSE "ADJ"

ent_type_(token_text) ==
    IF token_text = W_Paris THEN "GPE"
    ELSE IF token_text = W_French THEN "NORP"
    ELSE ""

\* ----------------------------------------------------------------- strings
\* str.strip()
RECURSIVE lstrip(_)
lstrip(s) ==
    IF s # <<>> /\ Head(s) \in Whitespace THEN lstrip(Tail(s)) ELSE s

RECURSIVE rstrip(_)
rstrip(s) ==
    IF s # <<>> /\ s[Len(s)] \in Whitespace
    THEN rstrip(SubSeq(s, 1, Len(s) - 1)) ELSE s

strip(s) == rstrip(lstrip(s))

\* "".join(parts)
RECURSIVE join(_)
join(parts) ==
    IF parts = <<>> THEN <<>> ELSE Head(parts) \o join(Tail(parts))

\* "_" * n
RECURSIVE repeat(_, _)
repeat(c, n) == IF n <= 0 THEN <<>> ELSE <<c>> \o repeat(c, n - 1)

\* --------------------------------------------------------------- tokenizer
\* Last index j >= i such that text[i..j] lies in the class cls.
RECURSIVE run_end(_, _, _)
run_end(text, i, cls) ==
    IF i < Len(text) /\ text[i + 1] \in cls
    THEN run_end(text, i + 1, cls) ELSE i

Token(text, i, j) ==
    [text |-> SubSeq(text, i, j), whitespace_ |-> <<>>, idx |-> i - 1,
     is_stop |-> is_stop(SubSeq(text, i, j)),
     pos_ |-> pos_(SubSeq(text, i, j)),
     ent_type_ |-> ent_type_(SubSeq(text, i, j))]

\* doc = nlp(text): the spaCy tokenizer splits the text into alternating
\* whitespace and non-whitespace spans.  One " " that directly follows a
\* non-whitespace span is the trailing whitespace_ of its last token; any
\* other whitespace run is a token of its own.  A non-whitespace span is
\* split into runs of letters and digits and single punctuation characters.
RECURSIVE tokenize(_, _, _)
tokenize(text, i, doc) ==
    IF i > Len(text) THEN doc
    ELSE IF text[i] \in Whitespace THEN
        IF text[i] = " " /\ i > 1 /\ text[i - 1] \notin Whitespace
        THEN tokenize(text, i + 1,
                 [doc EXCEPT ![Len(doc)].whitespace_ = <<" ">>])
        ELSE LET j == run_end(text, i, Whitespace)
             IN tokenize(text, j + 1, Append(doc, Token(text, i, j)))
    ELSE IF text[i] \in Letters \cup Digits THEN
        LET j == run_end(text, i, Letters \cup Digits)
        IN tokenize(text, j + 1, Append(doc, Token(text, i, j)))
    ELSE tokenize(text, i + 1, Append(doc, Token(text, i, i)))

nlp(text) == tokenize(text, 1, <<>>)

\* ------------------------------------------------------------- eligibility
\* re.match(r"^[A-Za-z]+$", token_text)
is_word(token_text) ==
    /\ Len(token_text) >= 1
    /\ \A i \in 1..Len(token_text) : token_text[i] \in Letters

eligible_token_no_stop(t) == is_word(t.text) /\ Len(t.text) >= 4

eligible_token(t) == is_word(t.text) /\ (~t.is_stop) /\ Len(t.text) >= 4

\* candidates = [t for t in doc if eligible_token(t)], as positions in doc
RECURSIVE filter_positions(_, _)
filter_positions(doc, i) ==
    IF i > Len(doc) THEN <<>>
    ELSE (IF eligible_token(doc[i]) THEN <<i>> ELSE <<>>)
         \o filter_positions(doc, i + 1)

candidates_of(doc) == filter_positions(doc, 1)

\* ------------------------------------------------------- the random module
NoneVal == <<>>
Some(v) == <<v>>

Max(a, b) == IF a >= b THEN a ELSE b
Min(a, b) == IF a <= b THEN a ELSE b

RngStates == 0..(RngMod - 1)

\* random.seed(a): the generator state is a function of the seed alone
seed_state(a) == (2 * a + 1) % RngMod

\* one step of the generator
next_state(g) == (g + 1) % RngMod

\* random._randbelow(n): advances the generator, returns a value in 0..n-1
randbelow(g, n) == [rng |-> next_state(g), val |-> next_state(g) % n]

\* random.sample(population, k), the pool branch (n <= 21):
\*   for i in range(k): j = randbelow(n - i); result[i] = pool[j];
\*                      pool[j] = pool[n - i - 1]
RECURSIVE sample_loop(_, _, _, _, _)
sample_loop(g, pool, k, i, result) ==
    IF i >= k THEN [result |-> result, rng |-> g, draws |-> i]
    ELSE LET n == Len(pool)
             d == randbelow(g, n - i)
             j == d.val + 1
         IN sample_loop(d.rng, [pool EXCEPT ![j] = pool[n - i]], k, i + 1,
                        Append(result, pool[j]))

sample(g, population, k) == sample_loop(g, population, k, 0, <<>>)

set_of(seq) == {seq[i] : i \in 1..Len(seq)}

\* ---------------------------------------------------------------- selection
Known == {"ALL_BLANK_FIRST_LETTERS", "RANDOM_BLANKS", "KEY_TERMS_ONLY",
          "EVERY_OTHER_WORD", "INCREASING_DIFFICULTY",
          "DIFFICULTY_LEVEL_BLANKS"}

Selection(blank_set, g, draws, ratio) ==
    [blank_set |-> blank_set, rng |-> g, draws |-> draws, ratio |-> ratio]

sample_size_no_minimum(n, ratio) == (n * ratio) \div 100

\* k = max(1, int(len(candidates) * ratio))
sample_size(n, ratio) == Max(1, (n * ratio) \div 100)

\* blank_set = set(random.sample(candidates, min(k, len(candidates))))
sample_blanks(candidates, ratio, g) ==
    LET n == Len(candidates)
        k == sample_size(n, ratio)
        s == sample(g, candidates, Min(k, n))
    IN Selection(set_of(s.result), s.rng, s.draws, Some(ratio))

\* ratio = float(blank_ratio) if blank_ratio is not None else 0.40
\* ratio = max(0.0, min(1.0, ratio))
random_ratio(blank_ratio) ==
    Max(0, Min(100, IF blank_ratio # NoneVal THEN blank_ratio[1] ELSE 40))

select_random(p, candidates, g) ==
    LET ratio == random_ratio(p.blank_ratio)
    IN IF candidates = <<>> THEN Selection({}, g, 0, Some(ratio))
       ELSE sample_blanks(candidates, ratio, g)

\* key_terms: eligible tokens that are NOUN, PROPN or carry an entity type
select_key_terms(doc) ==
    {i \in 1..Len(doc) :
        /\ eligible_token(doc[i])
        /\ (doc[i].pos_ \in {"NOUN", "PROPN"} \/ doc[i].ent_type_ # "")}

every_other_from_second(candidates) ==
    {candidates[i] : i \in {j \in 1..Len(candidates) : j % 2 = 0}}

\* set(candidates[::2])
every_other(candidates) ==
    {candidates[i] : i \in {j \in 1..Len(candidates) : j % 2 = 1}}

increasing_ratio_uncapped(p) ==
    Max(0, IF p.blank_ratio # NoneVal THEN p.blank_ratio[1]
           ELSE p.base_blank_ratio + p.step * (p.attempt_number - 1))

\* ratio = float(blank_ratio) if given, else base + step * (attempt - 1)
\* ratio = max(0.0, min(max_blank_ratio, ratio))
increasing_ratio(p) ==
    Max(0, Min(p.max_blank_ratio,
               IF p.blank_ratio # NoneVal THEN p.blank_ratio[1]
               ELSE p.base_blank_ratio + p.step * (p.attempt_number - 1)))

\* the branch shared by INCREASING_DIFFICULTY and DIFFICULTY_LEVEL_BLANKS
select_by_ratio(ratio, candidates, g) ==
    IF candidates = <<>> THEN Selection({}, g, 0, Some(ratio))
    ELSE IF ratio >= 100
         THEN Selection(set_of(candidates), g, 0, Some(ratio))
         ELSE sample_blanks(candidates, ratio, g)

level_to_ratio_flat(difficulty_level) ==
    IF difficulty_level = 4 THEN 100 ELSE 25

\* level_to_ratio = {1: 0.25, 2: 0.50, 3: 0.75, 4: 1.00}
\* ratio = level_to_ratio.get(difficulty_level, 0.25)
level_to_ratio(difficulty_level) ==
    IF difficulty_level = 1 THEN 25
    ELSE IF difficulty_level = 2 THEN 50
    ELSE IF difficulty_level = 3 THEN 75
    ELSE IF difficulty_level = 4 THEN 100
    ELSE 25

\* the if / elif chain on variation_type (the else branch is the caller's)
select(p, doc, candidates, g) ==
    IF p.variation_type = "ALL_BLANK_FIRST_LETTERS"
        THEN Selection(set_of(candidates), g, 0, NoneVal)
    ELSE IF p.variation_type = "RANDOM_BLANKS"
        THEN select_random(p, candidates, g)
    ELSE IF p.variation_type = "KEY_TERMS_ONLY"
        THEN Selection(select_key_terms(doc), g, 0, NoneVal)
    ELSE IF p.variation_type = "EVERY_OTHER_WORD"
        THEN Selection(every_other(candidates), g, 0, NoneVal)
    ELSE IF p.variation_type = "INCREASING_DIFFICULTY"
        THEN select_by_ratio(increasing_ratio(p), candidates, g)
    ELSE select_by_ratio(level_to_ratio(p.difficulty_level), candidates, g)

\* ----------------------------------------------------------------- renderer
in_blank_set_by_text(doc, i, blank_set) ==
    \E j \in blank_set : doc[j].text = doc[i].text

\* t in blank_set
in_blank_set(doc, i, blank_set) == i \in blank_set

\* the loop over doc: one entry of out_tokens / clue_tokens per token, then
\* its whitespace_
RECURSIVE out_tokens(_, _, _)
out_tokens(doc, blank_set, i) ==
    IF i > Len(doc) THEN <<>>
    ELSE LET t == doc[i]
             piece == IF in_blank_set(doc, i, blank_set)
                      THEN <<t.text[1]>> \o repeat("_", Len(t.text) - 1)
                      ELSE t.text
         IN <<piece>> \o (IF t.whitespace_ # <<>> THEN <<t.whitespace_>> ELSE <<>>)
            \o out_tokens(doc, blank_set, i + 1)

RECURSIVE clue_tokens(_, _, _)
clue_tokens(doc, blank_set, i) ==
    IF i > Len(doc) THEN <<>>
    ELSE LET t == doc[i]
             piece == IF in_blank_set(doc, i, blank_set)
                      THEN <<t.text[1]>> ELSE t.text
         IN <<piece>> \o (IF t.whitespace_ # <<>> THEN <<t.whitespace_>> ELSE <<>>)
            \o clue_tokens(doc, blank_set, i + 1)

render(doc, blank_set) ==
    [status |-> 200,
     blanked_text |-> strip(join(out_tokens(doc, blank_set, 1))),
     first_letter_clues |-> strip(join(clue_tokens(doc, blank_set, 1)))]

\* ------------------------------------------------------------- the handler
\* data.get(key, default)
get(data, key, default) == IF key \in DOMAIN data THEN data[key] ELSE default

\* data.get(key, None)
get_optional(data, key) ==
    IF key \in DOMAIN data THEN Some(data[key]) ELSE NoneVal

\* the locals read from the JSON body
Parse(data) ==
    [text |-> get(data, "text", <<>>),
     variation_type |-> get(data, "variation_type", "ALL_BLANK_FIRST_LETTERS"),
     blank_ratio |-> get_optional(data, "blank_ratio"),
     seed |-> get_optional(data, "seed"),
     attempt_number |-> get(data, "attempt_number", 1),
     base_blank_ratio |-> get(data, "base_blank_ratio", 30),
     step |-> get(data, "step", 15),
     max_blank_ratio |-> get(data, "max_blank_ratio", 85),
     difficulty_level |-> get(data, "difficulty_level", 1)]

text_missing_unstripped(text) == text = <<>>

\* not text.strip()
text_missing(text) == strip(text) = <<>>

Idle == [pc |-> "idle"]
NoResp == [status |-> 0]

\* the handler up to the check of text: its locals, and the first error
begin(data) ==
    LET p == Parse(data)
        missing == text_missing(p.text)
    IN [pc |-> IF missing THEN "done" ELSE "reseed",
        data |-> data, p |-> p, doc |-> <<>>, candidates |-> <<>>,
        blank_set |-> {}, ratio |-> NoneVal, draws |-> 0,
        resp |-> IF missing
                 THEN [status |-> 400, error |-> "text is required"]
                 ELSE NoResp]

reseed_ignored(g, seed) == g

reseed_on_top(g, seed) ==
    IF seed # NoneVal THEN (g + seed_state(seed[1])) % RngMod ELSE g

\* if seed is not None: random.seed(seed)
reseed(g, seed) == IF seed # NoneVal THEN seed_state(seed[1]) ELSE g

\* doc = nlp(text), the candidates, and the chain on variation_type with
\* its else branch
do_select(f, g) ==
    LET doc == nlp(f.p.text)
        candidates == candidates_of(doc)
    IN IF f.p.variation_type \notin Known
       THEN [frame |-> [f EXCEPT !.pc = "done", !.doc = doc,
                                 !.candidates = candidates,
                                 !.resp = [status |-> 400,
                                           error |-> "Unknown variation_type: "
                                                     \o f.p.variation_type]],
             rng |-> g]
       ELSE LET s == select(f.p, doc, candidates, g)
            IN [frame |-> [f EXCEPT !.pc = "render", !.doc = doc,
                                    !.candidates = candidates,
                                    !.blank_set = s.blank_set,
                                    !.ratio = s.ratio, !.draws = s.draws],
                rng |-> s.rng]

do_render(f) ==
    [f EXCEPT !.pc = "done", !.resp = render(f.doc, f.blank_set)]

\* generate(), run from the generator state g without interruption
generate(data, g) ==
    LET f0 == begin(data)
    IN IF f0.pc = "done" THEN [frame |-> f0, rng |-> g]
       ELSE LET s == do_select([f0 EXCEPT !.pc = "select"],
                               reseed(g, f0.p.seed))
            IN IF s.frame.pc = "done" THEN s
               ELSE [frame |-> do_render(s.frame), rng |-> s.rng]

\* ---------------------------------------------------------------- requests
T_scenario ==
    W_The \o SP \o W_quick \o SP \o W_brown \o SP \o W_fox \o SP \o W_jumps
T_four == W_Paris \o SP \o W_cats \o SP \o W_quick \o SP \o W_brown

Texts ==
    { <<>>,
      SP \o SP,
      W_Cats,
      T_scenario,
      W_cats \o SP \o W_cats \o SP,
      SP \o W_quick \o SP \o W_cats \o DOT \o SP,
      W_this \o SP \o W_fox \o SP \o W_ab12,
      T_four,
      W_cats \o SP \o SP \o W_this \o NL,
      W_with \o SP \o W_French \o SP \o W_jumps \o DOT }

Seeds == 0..MaxSeed
Attempts == 1..MaxAttempt
Levels == (0 - 1)..MaxLevel
BlankRatios == {0 - 50, 0, 40, 50, 75, 100, 150}
OverrideRatios == {0, 50, 120}
MaxRatios == {0 - 10, 85, 150}
Steps == {0 - 15, 15, 40}
Bases == {60}
Unknown == {"NOT_REAL", "random_blanks"}

Bodies ==
    [text : Texts]
    \cup {[variation_type |-> "RANDOM_BLANKS"]}
    \cup [text : Texts, variation_type : Known \cup Unknown]
    \cup [text : Texts, variation_type : {"RANDOM_BLANKS"},
          blank_ratio : BlankRatios]
    \cup [text : Texts, variation_type : {"INCREASING_DIFFICULTY"},
          blank_ratio : OverrideRatios]
    \cup [text : Texts, variation_type : {"INCREASING_DIFFICULTY"},
          blank_ratio : OverrideRatios, max_blank_ratio : MaxRatios]
    \cup [text : Texts, variation_type : {"INCREASING_DIFFICULTY"},
          attempt_number : Attempts, step : Steps,
          max_blank_ratio : MaxRatios]
    \cup [text : Texts, variation_type : {"INCREASING_DIFFICULTY"},
          attempt_number : Attempts, base_blank_ratio : Bases]
    \cup [text : Texts, variation_type : {"DIFFICULTY_LEVEL_BLANKS"},
          difficulty_level : Levels]

with_seeds(bodies) ==
    bodies \cup {b @@ [seed |-> s] : b \in bodies, s \in Seeds}

Requests == with_seeds(Bodies)

\* the requests two threads handle at once
ConcBodies ==
    {[text |-> SP \o SP]}
    \cup [text : {T_four},
          variation_type : {"RANDOM_BLANKS", "EVERY_OTHER_WORD", "NOT_REAL"}]
    \cup [text : {T_four}, variation_type : {"DIFFICULTY_LEVEL_BLANKS"},
          difficulty_level : {3}]

ConcRequests == with_seeds(ConcBodies)

without_seed(data) == [k \in DOMAIN data \ {"seed"} |-> data[k]]

\* ------------------------------------------------------------------- state
Workers == {1, 2}

VARIABLES
    rng,       \* the process-wide generator of the random module
    rng0,      \* rng when the request in frame arrived
    frame,     \* the locals of generate() for the request being served
    rngT,      \* the generator of a second server process
    rngT0,     \* rngT when the request in frameT arrived
    frameT,    \* the locals of generate() in the second process
    workers,   \* the locals of generate() in each thread of a threaded server
    dirty      \* dirty[w]: another thread used the generator between
               \* w's random.seed and w's random.sample

vars == <<rng, rng0, frame, rngT, rngT0, frameT, workers, dirty>>

Quiet ==
    /\ workers = [w \in Workers |-> Idle]
    /\ dirty = [w \in Workers |-> FALSE]

\* ------------------------------------------ one process, one request a time
Init ==
    /\ rng \in RngStates
    /\ rng0 = rng
    /\ frame = Idle
    /\ rngT = 0
    /\ rngT0 = 0
    /\ frameT = Idle
    /\ Quiet

Generate(d) ==
    /\ frame.pc = "idle"
    /\ LET r == generate(d, rng)
       IN /\ frame' = r.frame
          /\ rng' = r.rng
    /\ rng0' = rng
    /\ UNCHANGED <<rngT, rngT0, frameT, workers, dirty>>

Respond ==
    /\ frame.pc = "done"
    /\ frame' = Idle
    /\ rng0' = rng
    /\ UNCHANGED <<rng, rngT, rngT0, frameT, workers, dirty>>

Next ==
    \/ \E d \in Requests : Generate(d)
    \/ Respond

Spec == Init /\ [][Next]_vars

\* --------------- two processes with different pasts serve the same requests
InitReplay ==
    /\ rng \in RngStates
    /\ rngT \in RngStates
    /\ rngT0 = rngT
    /\ rng0 = rng
    /\ frame = Idle
    /\ frameT = Idle
    /\ Quiet

GenerateBoth(d) ==
    /\ frame.pc = "idle"
    /\ LET r == generate(d, rng)
           t == generate(d, rngT)
       IN /\ frame' = r.frame
          /\ rng' = r.rng
          /\ frameT' = t.frame
          /\ rngT' = t.rng
    /\ rng0' = rng
    /\ rngT0' = rngT
    /\ UNCHANGED <<workers, dirty>>

RespondBoth ==
    /\ frame.pc = "done"
    /\ frame' = Idle
    /\ frameT' = Idle
    /\ rng0' = rng
    /\ rngT0' = rngT
    /\ UNCHANGED <<rng, rngT, workers, dirty>>

NextReplay ==
    \/ \E d \in Requests : GenerateBoth(d)
    \/ RespondBoth

SpecReplay == InitReplay /\ [][NextReplay]_vars

\* ------- the same process and the same requests, with and without the seeds
InitSeedless ==
    /\ rng \in RngStates
    /\ rngT = rng
    /\ rngT0 = rngT
    /\ rng0 = rng
    /\ frame = Idle
    /\ frameT = Idle
    /\ Quiet

GenerateSeedless(d) ==
    /\ frame.pc = "idle"
    /\ LET r == generate(d, rng)
           t == generate(without_seed(d), rngT)
       IN /\ frame' = r.frame
          /\ rng' = r.rng
          /\ frameT' = t.frame
          /\ rngT' = t.rng
    /\ rng0' = rng
    /\ rngT0' = rngT
    /\ UNCHANGED <<workers, dirty>>

NextSeedless ==
    \/ \E d \in Requests : GenerateSeedless(d)
    \/ RespondBoth

SpecSeedless == InitSeedless /\ [][NextSeedless]_vars

\* --------------------------- one process, two threads (app.run is threaded)
InitConc ==
    /\ rng \in RngStates
    /\ rng0 = rng
    /\ frame = Idle
    /\ rngT = 0
    /\ rngT0 = 0
    /\ frameT = Idle
    /\ Quiet

InWindow(v) == workers[v].pc = "select"

Accept(w, d) ==
    /\ workers[w].pc = "idle"
    /\ workers' = [workers EXCEPT ![w] = begin(d)]
    /\ UNCHANGED <<rng, rng0, frame, rngT, rngT0, frameT, dirty>>

Reseed(w) ==
    /\ workers[w].pc = "reseed"
    /\ rng' = reseed(rng, workers[w].p.seed)
    /\ workers' = [workers EXCEPT ![w].pc = "select"]
    /\ dirty' = [v \in Workers |->
                   IF v = w THEN FALSE
                   ELSE dirty[v] \/ (InWindow(v) /\ workers[w].p.seed # NoneVal)]
    /\ UNCHANGED <<rng0, frame, rngT, rngT0, frameT>>

Select(w) ==
    /\ workers[w].pc = "select"
    /\ LET s == do_select(workers[w], rng)
       IN /\ rng' = s.rng
          /\ workers' = [workers EXCEPT ![w] = s.frame]
          /\ dirty' = [v \in Workers |->
                         IF v = w THEN dirty[v]
                         ELSE dirty[v] \/ (InWindow(v) /\ s.frame.draws > 0)]
    /\ UNCHANGED <<rng0, frame, rngT, rngT0, frameT>>

Render(w) ==
    /\ workers[w].pc = "render"
    /\ workers' = [workers EXCEPT ![w] = do_render(workers[w])]
    /\ UNCHANGED <<rng, rng0, frame, rngT, rngT0, frameT, dirty>>

Return(w) ==
    /\ workers[w].pc = "done"
    /\ workers' = [workers EXCEPT ![w] = Idle]
    /\ dirty' = [dirty EXCEPT ![w] = FALSE]
    /\ UNCHANGED <<rng, rng0, frame, rngT, rngT0, frameT>>

NextConc ==
    \E w \in Workers :
        \/ \E d \in ConcRequests : Accept(w, d)
        \/ Reseed(w)
        \/ Select(w)
        \/ Render(w)
        \/ Return(w)

SpecConc == InitConc /\ [][NextConc]_vars

\* ================================================================== claims
Served == frame.pc = "done"
Ok == Served /\ frame.resp.status = 200
Type == frame.p.variation_type
Sampling == {"RANDOM_BLANKS", "INCREASING_DIFFICULTY", "DIFFICULTY_LEVEL_BLANKS"}
NumCandidates == Len(frame.candidates)
NumBlanked == Cardinality(frame.blank_set)
AllBlanked == frame.blank_set = set_of(frame.candidates)

\* the number of candidates the same process would blank for the request d
BlankedFor(d) == Cardinality(generate(d, rng0).frame.blank_set)

\* C1: in every successful response, under every variation type, each
\* blanked token position is a candidate: a token of the document whose text
\* is purely alphabetic, is not a stop word and has at least 4 characters.
C1_BlankSetWithinCandidates ==
    Ok =>
        \A i \in frame.blank_set :
            /\ i \in 1..Len(frame.doc)
            /\ i \in set_of(frame.candidates)
            /\ LET w == frame.doc[i].text
               IN /\ Len(w) >= 4
                  /\ \A c \in 1..Len(w) : w[c] \in Letters
                  /\ w \notin StopWords

C1_Witness ==
    /\ Ok
    /\ Type = "KEY_TERMS_ONLY"
    /\ frame.blank_set # {}
    /\ \E i \in 1..Len(frame.doc) :
           /\ i \notin frame.blank_set
           /\ frame.doc[i].text \in StopWords
           /\ Len(frame.doc[i].text) >= 4

\* C2: under the three sampling variations the blank set is empty when there
\* are no candidates; with n >= 1 candidates its size is
\* min(n, max(1, floor(n * ratio))) for the clamped ratio, or n when the
\* ratio is >= 1.0 in the two difficulty variations: at least 1 (also at
\* ratio 0) and at most n.
C2_SampleSize ==
    (Ok /\ Type \in Sampling) =>
        LET n == NumCandidates
            r == frame.ratio[1]
        IN /\ r >= 0
           /\ Type = "RANDOM_BLANKS" => r <= 100
           /\ n = 0 => frame.blank_set = {}
           /\ n >= 1 =>
                 /\ NumBlanked =
                        IF Type # "RANDOM_BLANKS" /\ r >= 100 THEN n
                        ELSE Min(n, Max(1, (n * r) \div 100))
                 /\ NumBlanked >= 1
                 /\ NumBlanked <= n

C2_Witness ==
    /\ Ok
    /\ Type = "RANDOM_BLANKS"
    /\ frame.ratio = Some(0)
    /\ NumCandidates >= 2
    /\ NumBlanked = 1

\* C3: with requests served one at a time, a seeded request under a sampling
\* variation gets the same blank set and the same response from two
\* processes whatever requests each served before (whatever state each
\* generator was in when the request arrived).
C3_SeededReplay ==
    (Served /\ frame.p.seed # NoneVal /\ Type \in Sampling) =>
        /\ frameT.pc = "done"
        /\ frame.blank_set = frameT.blank_set
        /\ frame.resp = frameT.resp

C3_Witness ==
    /\ Ok
    /\ frame.p.seed # NoneVal
    /\ Type \in Sampling
    /\ frame.draws >= 2
    /\ NumCandidates > frame.draws
    /\ rng0 # rngT0
    /\ frameT.resp = frame.resp

\* C4: a later request without a seed gets the same blank set whether or not
\* earlier requests carried a seed.
C4_SeedStaysInItsRequest ==
    (Ok /\ frame.p.seed = NoneVal) => frame.blank_set = frameT.blank_set

\* C5: in a threaded server a seeded request's blank set differs from the
\* one it gets when run alone only if another thread reseeded or drew from
\* the shared generator between its random.seed and its random.sample; and
\* such an interleaving exists (C5_Witness).
C5_DivergenceNeedsInterleaving ==
    \A w \in Workers :
        (/\ workers[w].pc = "done"
         /\ workers[w].resp.status = 200
         /\ workers[w].p.seed # NoneVal
         /\ ~dirty[w])
        => workers[w].blank_set = generate(workers[w].data, 0).frame.blank_set

C5_Witness ==
    \E w \in Workers :
        /\ workers[w].pc = "done"
        /\ workers[w].resp.status = 200
        /\ workers[w].p.seed # NoneVal
        /\ workers[w].p.variation_type \in Sampling
        /\ workers[w].blank_set # generate(workers[w].data, 0).frame.blank_set

\* C6: a request ends in exactly one of three ways: 400 "text is required"
\* iff the text is empty after trimming (whatever the variation type, and
\* with the generator untouched); else 400 "Unknown variation_type: <value>"
\* iff the type is not one of the six; else 200 with blanked_text and
\* first_letter_clues.  An error carries neither of the two texts.
C6_Outcomes ==
    Served =>
        LET text == IF "text" \in DOMAIN frame.data
                    THEN frame.data.text ELSE <<>>
            vt == IF "variation_type" \in DOMAIN frame.data
                  THEN frame.data.variation_type
                  ELSE "ALL_BLANK_FIRST_LETTERS"
            empty == \A i \in 1..Len(text) : text[i] \in Whitespace
        IN /\ empty <=>
                  frame.resp = [status |-> 400, error |-> "text is required"]
           /\ empty => rng = rng0
           /\ (~empty /\ vt \notin Known) <=>
                  frame.resp = [status |-> 400,
                                error |-> "Unknown variation_type: " \o vt]
           /\ (~empty /\ vt \in Known) <=>
                  /\ frame.resp.status = 200
                  /\ DOMAIN frame.resp =
                         {"status", "blanked_text", "first_letter_clues"}
           /\ frame.resp.status \in {200, 400}
           /\ frame.resp.status = 400 => DOMAIN frame.resp = {"status", "error"}

C6_Witness ==
    /\ Served
    /\ frame.resp = [status |-> 400, error |-> "text is required"]
    /\ frame.p.text # <<>>
    /\ frame.p.variation_type = "NOT_REAL"
    /\ frame.p.seed # NoneVal
    /\ rng # seed_state(frame.p.seed[1])

\* the characters of text at the positions not in drop, in order
RECURSIVE Keep(_, _, _)
Keep(text, drop, j) ==
    IF j > Len(text) THEN <<>>
    ELSE (IF j \in drop THEN <<>> ELSE <<text[j]>>) \o Keep(text, drop, j + 1)

\* the text with "_" at the positions in mask
RECURSIVE Masked(_, _, _)
Masked(text, mask, j) ==
    IF j > Len(text) THEN <<>>
    ELSE <<IF j \in mask THEN "_" ELSE text[j]>> \o Masked(text, mask, j + 1)

\* the positions in the text of every character but the first of the
\* blanked tokens
Tails ==
    {j \in 1..Len(frame.p.text) :
        \E i \in frame.blank_set :
            /\ j > frame.doc[i].idx + 1
            /\ j <= frame.doc[i].idx + Len(frame.doc[i].text)}

\* C7: blanked_text is the trimmed text with every character after the first
\* of each blanked token position (and of no other token) replaced by "_";
\* first_letter_clues is the trimmed text with those characters removed.
\* So both are the trimmed text when nothing is blanked, and blanked_text
\* is as long as the trimmed text.
C7_Render ==
    Ok =>
        LET text == frame.p.text
        IN /\ frame.resp.blanked_text = strip(Masked(text, Tails, 1))
           /\ frame.resp.first_letter_clues = strip(Keep(text, Tails, 1))
           /\ Len(frame.resp.blanked_text) = Len(strip(text))
           /\ frame.blank_set = {} =>
                  /\ frame.resp.blanked_text = strip(text)
                  /\ frame.resp.first_letter_clues = strip(text)

C7_Witness ==
    /\ Ok
    /\ frame.p.text # strip(frame.p.text)
    /\ \E i \in frame.blank_set :
           \E j \in (1..Len(frame.doc)) \ frame.blank_set :
               frame.doc[i].text = frame.doc[j].text
    /\ Len(frame.resp.first_letter_clues) < Len(frame.resp.blanked_text)

\* C8: under EVERY_OTHER_WORD the blank set is the candidates, in document
\* order, at index 0, 2, 4, ...: ceil(n / 2) of them, never two in a row,
\* whatever the seed and the state of the generator.
C8_EveryOther ==
    (Ok /\ Type = "EVERY_OTHER_WORD") =>
        LET c == frame.candidates
            n == Len(c)
        IN /\ \A i \in 1..n : \A j \in 1..n : i < j => c[i] < c[j]
           /\ frame.blank_set \subseteq set_of(c)
           /\ \A i \in 1..n : c[i] \in frame.blank_set <=> i % 2 = 1
           /\ NumBlanked = (n + 1) \div 2
           /\ \A i \in 1..(n - 1) :
                  ~(c[i] \in frame.blank_set /\ c[i + 1] \in frame.blank_set)
           /\ \A g \in RngStates :
                  /\ generate(without_seed(frame.data), g).frame.blank_set
                         = frame.blank_set
                  /\ \A sd \in Seeds :
                         generate([seed |-> sd] @@ frame.data, g).frame.blank_set
                             = frame.blank_set

C8_Witness ==
    /\ Ok
    /\ Type = "EVERY_OTHER_WORD"
    /\ NumCandidates = 3
    /\ NumBlanked = 2
    /\ frame.p.seed # NoneVal
    /\ rng # rng0

\* the ratio INCREASING_DIFFICULTY uses: blank_ratio when supplied, else
\* base_blank_ratio + step * (attempt_number - 1), clamped
C9_Ratio ==
    LET d == frame.data
        base == IF "base_blank_ratio" \in DOMAIN d THEN d.base_blank_ratio ELSE 30
        step == IF "step" \in DOMAIN d THEN d.step ELSE 15
        attempt == IF "attempt_number" \in DOMAIN d THEN d.attempt_number ELSE 1
        cap == IF "max_blank_ratio" \in DOMAIN d THEN d.max_blank_ratio ELSE 85
        raw == IF "blank_ratio" \in DOMAIN d THEN d.blank_ratio
               ELSE base + step * (attempt - 1)
    IN frame.ratio = Some(Max(0, Min(cap, raw)))

\* with the default max_blank_ratio at most max(1, floor(0.85 * n)) of n
\* candidates are blanked
C9_DefaultCap ==
    ("max_blank_ratio" \notin DOMAIN frame.data /\ NumCandidates >= 1) =>
        NumBlanked <= Max(1, (85 * NumCandidates) \div 100)

\* for step >= 0 a smaller attempt_number never blanks more
C9_Monotone ==
    frame.p.step >= 0 =>
        \A a \in Attempts :
            a <= frame.p.attempt_number =>
                BlankedFor([attempt_number |-> a] @@ frame.data) <= NumBlanked

\* C9 as stated: the ratio is the clamped blank_ratio or the clamped
\* base + step * (attempt - 1); all candidates are blanked iff that ratio is
\* >= 1.0; the default cap bounds the blanks by max(1, floor(0.85 * n)); the
\* number of blanks never decreases with attempt_number for step >= 0.
C9_AllIffRatioOne ==
    (Ok /\ Type = "INCREASING_DIFFICULTY") =>
        /\ C9_Ratio
        /\ AllBlanked <=> frame.ratio[1] >= 100
        /\ C9_DefaultCap
        /\ C9_Monotone

\* C9 amended: as stated, but all candidates are blanked if the ratio is
\* >= 1.0, and below 1.0 exactly min(n, max(1, floor(n * ratio))) of n >= 1
\* candidates are blanked, which is all of them only when n = 1.
C9_IncreasingDifficulty ==
    (Ok /\ Type = "INCREASING_DIFFICULTY") =>
        /\ C9_Ratio
        /\ frame.ratio[1] >= 100 => AllBlanked
        /\ (frame.ratio[1] < 100 /\ NumCandidates >= 1) =>
               /\ NumBlanked =
                      Min(NumCandidates,
                          Max(1, (NumCandidates * frame.ratio[1]) \div 100))
               /\ AllBlanked <=> NumCandidates = 1
        /\ C9_DefaultCap
        /\ C9_Monotone

C9_Witness ==
    /\ Ok
    /\ Type = "INCREASING_DIFFICULTY"
    /\ NumCandidates = 1
    /\ frame.ratio[1] < 100
    /\ AllBlanked
    /\ frame.p.attempt_number > 1

\* C10: under DIFFICULTY_LEVEL_BLANKS the ratio is 0.25, 0.50, 0.75, 1.00
\* for levels 1, 2, 3, 4 and 0.25 for any other level; level 4 blanks every
\* candidate without a draw from the generator; from level 1 to 4 the
\* number of blanks never decreases.
C10_DifficultyLevels ==
    (Ok /\ Type = "DIFFICULTY_LEVEL_BLANKS") =>
        LET level == IF "difficulty_level" \in DOMAIN frame.data
                     THEN frame.data.difficulty_level ELSE 1
        IN /\ level = 1 => frame.ratio = Some(25)
           /\ level = 2 => frame.ratio = Some(50)
           /\ level = 3 => frame.ratio = Some(75)
           /\ level = 4 => frame.ratio = Some(100)
           /\ level \notin 1..4 => frame.ratio = Some(25)
           /\ level = 4 =>
                  /\ AllBlanked
                  /\ frame.draws = 0
                  /\ rng = IF frame.p.seed # NoneVal
                           THEN seed_state(frame.p.seed[1]) ELSE rng0
           /\ level \in 1..4 =>
                  \A l \in 1..level :
                      BlankedFor([difficulty_level |-> l] @@ frame.data)
                          <= NumBlanked

C10_Witness ==
    /\ Ok
    /\ Type = "DIFFICULTY_LEVEL_BLANKS"
    /\ frame.p.difficulty_level = 4
    /\ NumCandidates >= 4
    /\ NumBlanked = NumCandidates
    /\ frame.p.seed = NoneVal
    /\ rng = rng0

====
